---- MODULE Spec2Model ----
(***************************************************************************)
(* Model of the event-driven solver of rust_particle_system                *)
(* (src/src/solver/mod.rs) with its halt and record policies, the GridND   *)
(* graph and the rule sets SI, SIR, Two-SI and Voter.                       *)
(*                                                                         *)
(* Rates are integers, so the f64 arithmetic of the solver is exact.  Time *)
(* is counted in ticks: the exponential time step of an event is any       *)
(* positive number of ticks, chosen nondeterministically.                  *)
(* Vertices are 0 .. N-1; a configuration is a sequence whose entry v+1 is *)
(* the state of vertex v.                                                  *)
(***************************************************************************)
EXTENDS Integers, Sequences, FiniteSets, TLC

\* ---------------------------------------------------------------- bounds
\* largest limit of a halt policy (T in ticks, S snapshots, E events)
MaxLimit == 2
\* largest time step of one event, in ticks
MaxDt == 2
\* largest recording interval tau (ticks) and largest n of EveryNthStep
MaxRecArg == 2
\* cap on the event counter (the loop itself is unbounded under some policies)
MaxEvents == 2
\* cap on the event counter in the runs that are followed to absorption
MaxEventsLong == 6
\* largest dimension of a grid axis in the calls of get_neighbors alone
MaxDim == 4
\* largest number of vertices of a diluted lattice (its edge mask has twice as
\* many entries)
MaxCells == 6
\* largest number of vertices of an Erdos-Renyi graph
MaxNodes == 4

\* ---------------------------------------------------------------- helpers
RECURSIVE SumSeq(_)
SumSeq(s) == IF s = << >> THEN 0 ELSE Head(s) + SumSeq(Tail(s))

RECURSIVE SumOver(_, _)
\* sum of f[x] over the finite set S, f a function on S
SumOver(S, f) ==
  IF S = {} THEN 0
  ELSE LET x == CHOOSE y \in S : TRUE IN f[x] + SumOver(S \ {x}, f)

RECURSIVE Copies(_, _)
\* k copies of the sequence s, concatenated
Copies(s, k) == IF k <= 0 THEN << >> ELSE s \o Copies(s, k - 1)

\* ---------------------------------------------------------------- graph: GridND
RECURSIVE step_sizes(_)
\* running products of the dimensions: 1, d1, d1*d2, ...
step_sizes(dimensions) ==
  IF dimensions = << >> THEN << >>
  ELSE <<1>> \o [i \in 1 .. Len(dimensions) - 1 |->
                   dimensions[1] * step_sizes(Tail(dimensions))[i]]

nr_points(graph) ==
  step_sizes(graph.dimensions)[Len(graph.dimensions)]
    * graph.dimensions[Len(graph.dimensions)]

\* a glued axis that wraps from its close boundary only
AxisNeighbors_oneWayWrap(graph, particle, dimension_index) ==
  LET step_size == step_sizes(graph.dimensions)[dimension_index]
      current_dimension == graph.dimensions[dimension_index]
      current_coordinate == (particle \div step_size) % current_dimension
  IN IF current_coordinate = 0
     THEN {particle + step_size}
          \cup (IF graph.glue[dimension_index]
                THEN {particle + step_size * current_dimension - step_size}
                ELSE {})
     ELSE IF current_coordinate = current_dimension - 1
     THEN {particle - step_size}
     ELSE {particle + step_size, particle - step_size}

\* an axis that is never glued
AxisNeighbors_noWrap(graph, particle, dimension_index) ==
  LET step_size == step_sizes(graph.dimensions)[dimension_index]
      current_dimension == graph.dimensions[dimension_index]
      current_coordinate == (particle \div step_size) % current_dimension
  IN IF current_coordinate = 0
     THEN {particle + step_size}
     ELSE IF current_coordinate = current_dimension - 1
     THEN {particle - step_size}
     ELSE {particle + step_size, particle - step_size}

\* the neighbors one axis contributes to a particle
AxisNeighbors(graph, particle, dimension_index) ==
  LET step_size == step_sizes(graph.dimensions)[dimension_index]
      current_dimension == graph.dimensions[dimension_index]
      current_coordinate == (particle \div step_size) % current_dimension
  IN IF current_coordinate = 0
     THEN {particle + step_size}
          \cup (IF graph.glue[dimension_index]
                THEN {particle + step_size * current_dimension - step_size}
                ELSE {})
     ELSE IF current_coordinate = current_dimension - 1
     THEN {particle - step_size}
          \cup (IF graph.glue[dimension_index]
                THEN {particle + step_size - step_size * current_dimension}
                ELSE {})
     ELSE {particle + step_size, particle - step_size}

\* a loop over the axes that stops one short
get_neighbors_lastAxisMissing(graph, particle) ==
  UNION {AxisNeighbors(graph, particle, i) : i \in 1 .. Len(graph.dimensions) - 1}

get_neighbors(graph, particle) ==
  UNION {AxisNeighbors(graph, particle, i) : i \in 1 .. Len(graph.dimensions)}

\* GridND::from(dimensions): every axis cyclic
GridND_from(dimensions) ==
  [dimensions |-> dimensions, glue |-> [i \in 1 .. Len(dimensions) |-> TRUE]]

\* GridND::from((dimensions, glue))
GridND_from_glue(dimensions, glue) == [dimensions |-> dimensions, glue |-> glue]

\* the graphs the solver is run on
Graphs ==
  { GridND_from(<<3>>), GridND_from_glue(<<3>>, <<FALSE>>) }

Vertices(graph) == 0 .. nr_points(graph) - 1

\* DilutedLattice::new(dim_x, dim_y, ..), with the edge mask the sampler drew:
\* entry i of the Vec is is_edge[i + 1]
DilutedLattice_new(dim_x, dim_y, is_edge) ==
  [nr_points |-> dim_x * dim_y, dim_x |-> dim_x, step_x |-> 1,
   dim_y |-> dim_y, step_y |-> dim_x, is_edge |-> is_edge]

\* a lattice whose top row has no neighbor above it
DilutedLattice_get_neighbors_noTopWrap(lattice, v) ==
  LET x_coord == v % lattice.dim_x
      y_coord == v \div lattice.dim_x
      is_edge(i) == lattice.is_edge[i + 1]
      right == IF x_coord = lattice.dim_x - 1
               THEN IF is_edge(v)
                    THEN {v + lattice.step_x - lattice.dim_x} ELSE {}
               ELSE IF is_edge(v) THEN {v + lattice.step_x} ELSE {}
      left == IF x_coord = 0
              THEN IF is_edge(v + lattice.dim_x - lattice.step_x)
                   THEN {v + lattice.dim_x - lattice.step_x} ELSE {}
              ELSE IF is_edge(v - lattice.step_x)
                   THEN {v - lattice.step_x} ELSE {}
      bottom == IF y_coord = lattice.dim_y - 1
                THEN IF is_edge(lattice.nr_points + v)
                     THEN {v + lattice.step_y - lattice.nr_points} ELSE {}
                ELSE IF is_edge(lattice.nr_points + v)
                     THEN {v + lattice.step_y} ELSE {}
      top == IF y_coord = 0
             THEN {}
             ELSE IF is_edge(lattice.nr_points + v - lattice.step_y)
                  THEN {v - lattice.step_y} ELSE {}
  IN right \cup left \cup bottom \cup top

\* a lattice whose top neighbor is looked up under the vertex's own edge
DilutedLattice_get_neighbors_ownEdge(lattice, v) ==
  LET x_coord == v % lattice.dim_x
      y_coord == v \div lattice.dim_x
      is_edge(i) == lattice.is_edge[i + 1]
      right == IF x_coord = lattice.dim_x - 1
               THEN IF is_edge(v)
                    THEN {v + lattice.step_x - lattice.dim_x} ELSE {}
               ELSE IF is_edge(v) THEN {v + lattice.step_x} ELSE {}
      left == IF x_coord = 0
              THEN IF is_edge(v + lattice.dim_x - lattice.step_x)
                   THEN {v + lattice.dim_x - lattice.step_x} ELSE {}
              ELSE IF is_edge(v - lattice.step_x)
                   THEN {v - lattice.step_x} ELSE {}
      bottom == IF y_coord = lattice.dim_y - 1
                THEN IF is_edge(lattice.nr_points + v)
                     THEN {v + lattice.step_y - lattice.nr_points} ELSE {}
                ELSE IF is_edge(lattice.nr_points + v)
                     THEN {v + lattice.step_y} ELSE {}
      top == IF y_coord = 0
             THEN IF is_edge(lattice.nr_points + v)
                  THEN {v + lattice.nr_points - lattice.step_y} ELSE {}
             ELSE IF is_edge(lattice.nr_points + v)
                  THEN {v - lattice.step_y} ELSE {}
  IN right \cup left \cup bottom \cup top

\* DilutedLattice::get_neighbors
DilutedLattice_get_neighbors(lattice, v) ==
  LET x_coord == v % lattice.dim_x
      y_coord == v \div lattice.dim_x
      is_edge(i) == lattice.is_edge[i + 1]
      right == IF x_coord = lattice.dim_x - 1
               THEN IF is_edge(v)
                    THEN {v + lattice.step_x - lattice.dim_x} ELSE {}
               ELSE IF is_edge(v) THEN {v + lattice.step_x} ELSE {}
      left == IF x_coord = 0
              THEN IF is_edge(v + lattice.dim_x - lattice.step_x)
                   THEN {v + lattice.dim_x - lattice.step_x} ELSE {}
              ELSE IF is_edge(v - lattice.step_x)
                   THEN {v - lattice.step_x} ELSE {}
      bottom == IF y_coord = lattice.dim_y - 1
                THEN IF is_edge(lattice.nr_points + v)
                     THEN {v + lattice.step_y - lattice.nr_points} ELSE {}
                ELSE IF is_edge(lattice.nr_points + v)
                     THEN {v + lattice.step_y} ELSE {}
      top == IF y_coord = 0
             THEN IF is_edge(2 * lattice.nr_points + v - lattice.step_y)
                  THEN {v + lattice.nr_points - lattice.step_y} ELSE {}
             ELSE IF is_edge(lattice.nr_points + v - lattice.step_y)
                  THEN {v - lattice.step_y} ELSE {}
  IN right \cup left \cup bottom \cup top

\* the lattices of at most max_cells vertices and sides of at most MaxDim,
\* with every edge mask
Lattices(max_cells) ==
  UNION {{DilutedLattice_new(sz[1], sz[2], mask) :
            mask \in [1 .. 2 * sz[1] * sz[2] -> BOOLEAN]} :
         sz \in {wh \in (1 .. MaxDim) \X (1 .. MaxDim) :
                   wh[1] * wh[2] <= max_cells}}

\* DilutedLattice::new(dim_x, dim_y, 1.0, ..): every edge is present
FullLattices ==
  {DilutedLattice_new(w, h, [i \in 1 .. 2 * w * h |-> TRUE]) :
     w \in 1 .. MaxDim, h \in 1 .. MaxDim}

\* ErdosRenyi::new(nr_points, ..), with the pairs the sampler connected
ErdosRenyi_new(nr_nodes, cliques) ==
  [nr_points |-> nr_nodes, cliques |-> cliques]

\* ErdosRenyi::get_neighbors
ErdosRenyi_get_neighbors(er, v) ==
  UNION {{neigh \in clique : neigh # v} :
         clique \in {c \in er.cliques : v \in c}} \ {v}

\* the Erdos-Renyi graphs of at most MaxNodes vertices: "all unordered pairs
\* of points", each connected or not
ErdosRenyiGraphs ==
  UNION {{ErdosRenyi_new(n, cliques) :
            cliques \in SUBSET {c \in SUBSET (0 .. n - 1) :
                                  Cardinality(c) = 2}} :
         n \in 1 .. MaxNodes}

\* Graph::nr_points of a boxed graph
Graph_nr_points(g) ==
  IF "dimensions" \in DOMAIN g THEN nr_points(g) ELSE g.nr_points

\* Graph::get_neighbors of a boxed graph
Graph_get_neighbors(g, v) ==
  IF "is_edge" \in DOMAIN g THEN DilutedLattice_get_neighbors(g, v)
  ELSE IF "cliques" \in DOMAIN g THEN ErdosRenyi_get_neighbors(g, v)
  ELSE get_neighbors(g, v)

\* ---------------------------------------------------------------- rule sets
SIProcess(b, d) ==
  [kind |-> "SI", birth_rate |-> b, death_rate |-> d, compete_rate |-> 0,
   nr_parties |-> 0, change_rate |-> 0]
SIRProcess(b, d) ==
  [kind |-> "SIR", birth_rate |-> b, death_rate |-> d, compete_rate |-> 0,
   nr_parties |-> 0, change_rate |-> 0]
TwoSIProcess(b, d, c) ==
  [kind |-> "TwoSI", birth_rate |-> b, death_rate |-> d, compete_rate |-> c,
   nr_parties |-> 0, change_rate |-> 0]
VoterProcess(k, r) ==
  [kind |-> "Voter", birth_rate |-> 0, death_rate |-> 0, compete_rate |-> 0,
   nr_parties |-> k, change_rate |-> r]

all_states(rules) ==
  CASE rules.kind = "SI" -> {0, 1}
    [] rules.kind = "SIR" -> {0, 1, 2}
    [] rules.kind = "TwoSI" -> {0, 1, 2}
    [] rules.kind = "Voter" -> 0 .. rules.nr_parties - 1

\* all_states() as the Vec the rule set returns, in its order
all_states_vec(rules) ==
  CASE rules.kind = "SI" -> <<0, 1>>
    [] rules.kind = "SIR" -> <<0, 1, 2>>
    [] rules.kind = "TwoSI" -> <<0, 1, 2>>
    [] rules.kind = "Voter" -> [i \in 1 .. rules.nr_parties |-> i - 1]

\* the rates the wrong way round, as in contact_process.rs
SI_vacuum_birthRate(rules, current, goal) ==
  IF current = 1 /\ goal = 0 THEN rules.birth_rate ELSE 0

SI_vacuum(rules, current, goal) ==
  IF current = 1 /\ goal = 0 THEN rules.death_rate ELSE 0

\* an infection rate that does not ask whether the vertex is susceptible
SI_neighbor_anyCurrent(rules, current, goal, sender) ==
  IF goal = 1 /\ sender = 1 THEN rules.birth_rate ELSE 0

SI_neighbor(rules, current, goal, sender) ==
  IF current = 0 /\ goal = 1 /\ sender = 1 THEN rules.birth_rate ELSE 0

\* recovery to susceptible, as in the SI rule set, instead of removal
SIR_vacuum_recover(rules, current, goal) ==
  IF current = 1 /\ goal = 0 THEN rules.death_rate ELSE 0

SIR_vacuum(rules, current, goal) ==
  IF current = 1 /\ goal = 2 THEN rules.death_rate ELSE 0

SIR_neighbor(rules, current, goal, sender) ==
  IF current = 0 /\ goal = 1 /\ sender = 1 THEN rules.birth_rate ELSE 0

TwoSI_vacuum(rules, current, goal) ==
  IF current = 1 /\ goal = 0 THEN rules.death_rate
  ELSE IF current = 2 /\ goal = 0 THEN rules.death_rate
  ELSE 0

\* conversion in one direction only: species 2 turns species 1, never back
TwoSI_neighbor_oneWay(rules, current, goal, sender) ==
  IF current = 0 /\ goal = 1 /\ sender = 1 THEN rules.birth_rate
  ELSE IF current = 0 /\ goal = 2 /\ sender = 2 THEN rules.birth_rate
  ELSE IF current = 1 /\ goal = 2 /\ sender = 2 THEN rules.compete_rate
  ELSE 0

TwoSI_neighbor(rules, current, goal, sender) ==
  IF current = 0 /\ goal = 1 /\ sender = 1 THEN rules.birth_rate
  ELSE IF current = 0 /\ goal = 2 /\ sender = 2 THEN rules.birth_rate
  ELSE IF current = 1 /\ goal = 2 /\ sender = 2 THEN rules.compete_rate
  ELSE IF current = 2 /\ goal = 1 /\ sender = 1 THEN rules.compete_rate
  ELSE 0

Voter_vacuum(rules, current, goal) == 0

\* a voter rule without the "do not influence if the same" case
Voter_neighbor_sameParty(rules, current, goal, sender) ==
  IF goal # sender THEN 0 ELSE rules.change_rate

Voter_neighbor(rules, current, goal, sender) ==
  IF goal # sender THEN 0
  ELSE IF current = goal THEN 0
  ELSE rules.change_rate

get_vacuum_mutation_rate(rules, current, goal) ==
  CASE rules.kind = "SI" -> SI_vacuum(rules, current, goal)
    [] rules.kind = "SIR" -> SIR_vacuum(rules, current, goal)
    [] rules.kind = "TwoSI" -> TwoSI_vacuum(rules, current, goal)
    [] rules.kind = "Voter" -> Voter_vacuum(rules, current, goal)

get_neighbor_mutation_rate(rules, current, goal, sender) ==
  CASE rules.kind = "SI" -> SI_neighbor(rules, current, goal, sender)
    [] rules.kind = "SIR" -> SIR_neighbor(rules, current, goal, sender)
    [] rules.kind = "TwoSI" -> TwoSI_neighbor(rules, current, goal, sender)
    [] rules.kind = "Voter" -> Voter_neighbor(rules, current, goal, sender)

\* default methods of the IPSRules trait.  neighbor_counts is a map from the
\* states that occur among the neighbors to their multiplicity.
get_neighbor_reactivity(rules, current, sender) ==
  SumOver(all_states(rules),
          [other \in all_states(rules) |->
             get_neighbor_mutation_rate(rules, current, other, sender)])

get_mutation_rate(rules, current, goal, neighbor_counts) ==
  get_vacuum_mutation_rate(rules, current, goal)
    + SumOver(DOMAIN neighbor_counts,
              [neigh_state \in DOMAIN neighbor_counts |->
                 neighbor_counts[neigh_state]
                   * get_neighbor_mutation_rate(rules, current, goal, neigh_state)])

\* a row sum that counts every neighbor state once, whatever its multiplicity
get_reactivity_countsOnce(rules, current, neighbor_counts) ==
  SumOver(all_states(rules),
          [goal \in all_states(rules) |->
             get_vacuum_mutation_rate(rules, current, goal)
               + SumOver(DOMAIN neighbor_counts,
                         [neigh_state \in DOMAIN neighbor_counts |->
                            get_neighbor_mutation_rate(rules, current, goal,
                                                       neigh_state)])])

get_reactivity(rules, current, neighbor_counts) ==
  SumOver(all_states(rules),
          [goal \in all_states(rules) |->
             get_vacuum_mutation_rate(rules, current, goal)
               + SumOver(DOMAIN neighbor_counts,
                         [neigh_state \in DOMAIN neighbor_counts |->
                            neighbor_counts[neigh_state]
                              * get_neighbor_mutation_rate(rules, current, goal,
                                                           neigh_state)])])

\* the rule sets the solver is run with
RuleSets ==
  { SIProcess(2, 1), SIProcess(0, 1),
    SIRProcess(2, 1),
    TwoSIProcess(2, 1, 1),
    VoterProcess(2, 1), VoterProcess(3, 1) }

\* ---------------------------------------------------------------- policies
TimePassed(limit) == [kind |-> "TimePassed", limit |-> limit]
StepsRecorded(limit) == [kind |-> "StepsRecorded", limit |-> limit]
StepsTaken(limit) == [kind |-> "StepsTaken", limit |-> limit]

HaltConditions ==
  {TimePassed(l) : l \in 0 .. MaxLimit}
    \cup {StepsRecorded(l) : l \in 0 .. MaxLimit}
    \cup {StepsTaken(l) : l \in 0 .. MaxLimit}

\* should_continue with a strict comparison for StepsTaken
should_continue_strict(halt, time, recorded, taken) ==
  CASE halt.kind = "TimePassed" -> time < halt.limit
    [] halt.kind = "StepsRecorded" -> recorded < halt.limit
    [] halt.kind = "StepsTaken" -> taken < halt.limit

should_continue(halt, time, recorded, taken) ==
  CASE halt.kind = "TimePassed" -> time < halt.limit
    [] halt.kind = "StepsRecorded" -> recorded < halt.limit
    [] halt.kind = "StepsTaken" -> taken <= halt.limit

ConstantTime(time_interval) == [kind |-> "ConstantTime", arg |-> time_interval]
EveryNthStep(n) == [kind |-> "EveryNthStep", arg |-> n]
Final == [kind |-> "Final", arg |-> 0]

RecordConditions ==
  {ConstantTime(t) : t \in 1 .. MaxRecArg}
    \cup {EveryNthStep(n) : n \in 1 .. MaxRecArg}
    \cup {Final}

\* how_often_record that ignores is_final under the Final policy
how_often_record_neverFinal(rec, time, time_step, taken, is_final) ==
  CASE rec.kind = "ConstantTime" ->
         (time \div rec.arg) - ((time - time_step) \div rec.arg)
    [] rec.kind = "EveryNthStep" -> IF taken % rec.arg = 0 THEN 1 ELSE 0
    [] rec.kind = "Final" -> 0

how_often_record(rec, time, time_step, taken, is_final) ==
  CASE rec.kind = "ConstantTime" ->
         (time \div rec.arg) - ((time - time_step) \div rec.arg)
    [] rec.kind = "EveryNthStep" -> IF taken % rec.arg = 0 THEN 1 ELSE 0
    [] rec.kind = "Final" -> IF is_final THEN 1 ELSE 0


\* ---------------------------------------------------------------- weighted index
\* rand's WeightedIndex over the weight vector: new() fails when no weight is
\* positive, update_weights() wants strictly ascending indices, checks the
\* total before it touches the index, and otherwise patches the named weights.
WeightedIndex_new(weights) ==
  IF weights = << >> THEN [ok |-> FALSE, err |-> "NoItem", weights |-> << >>]
  ELSE IF \E i \in DOMAIN weights : weights[i] < 0
  THEN [ok |-> FALSE, err |-> "InvalidWeight", weights |-> << >>]
  ELSE IF SumSeq(weights) = 0
  THEN [ok |-> FALSE, err |-> "AllWeightsZero", weights |-> << >>]
  ELSE [ok |-> TRUE, err |-> "none", weights |-> weights]

RECURSIVE Patch(_, _)
Patch(weights, new_weights) ==
  IF new_weights = << >> THEN weights
  ELSE Patch([weights EXCEPT ![Head(new_weights)[1] + 1] = Head(new_weights)[2]],
             Tail(new_weights))

update_weights(weights, new_weights) ==
  LET ascending == \A k \in 1 .. Len(new_weights) - 1 :
                      new_weights[k][1] < new_weights[k + 1][1]
      nonneg == \A k \in DOMAIN new_weights : new_weights[k][2] >= 0
      patched == Patch(weights, new_weights)
  IN IF ~ascending \/ ~nonneg
     THEN [ok |-> FALSE, err |-> "InvalidWeight", weights |-> weights]
     ELSE IF SumSeq(patched) <= 0
     THEN [ok |-> FALSE, err |-> "AllWeightsZero", weights |-> weights]
     ELSE [ok |-> TRUE, err |-> "none", weights |-> patched]

\* ---------------------------------------------------------------- solver pieces
\* a mapping that takes the categorical's (1-based) index for the state
int_to_state_indexAsState(rules) ==
  [i \in 1 .. Len(all_states_vec(rules)) |-> i]

\* "Initialize integer-to-state mapping": a copy of all_states(), in order
int_to_state(rules) ==
  [i \in 1 .. Len(all_states_vec(rules)) |-> all_states_vec(rules)[i]]

\* neigh_counts: how many neighbors are in each state that occurs among them
NeighCounts(cfg, neighs) ==
  [s \in {cfg[j + 1] : j \in neighs} |->
     Cardinality({j \in neighs : cfg[j + 1] = s})]

\* Phase I, "Compute initial rates"
InitialReactivities(rls, g, cfg) ==
  [k \in 1 .. Graph_nr_points(g) |->
     get_reactivity(rls, cfg[k], NeighCounts(cfg, Graph_get_neighbors(g, k - 1)))]

\* an own rate that leaves the neighbors out
OwnRate_noNeighbors(rls, cfg, neighs, new_state) ==
  get_reactivity(rls, new_state, NeighCounts(cfg, {}))

\* "Compute own new rate": the counts are taken again after the write
OwnRate(rls, cfg, neighs, new_state) ==
  get_reactivity(rls, new_state, NeighCounts(cfg, neighs))

RECURSIVE NeighborRepair_keepOld(_, _, _, _, _, _)
\* neighbor repair that forgets to take the old spread rate off the neighbor
NeighborRepair_keepOld(rls, cfg, rt, todo, old_particle_state, new_state) ==
  IF todo = {} THEN rt
  ELSE LET n == CHOOSE m \in todo : TRUE
           old_spread_rate ==
             get_neighbor_reactivity(rls, cfg[n + 1], old_particle_state)
           new_spread_rate ==
             get_neighbor_reactivity(rls, cfg[n + 1], new_state)
           r1 == rt.r[n + 1] + new_spread_rate
       IN NeighborRepair_keepOld(rls, cfg,
            [r |-> [rt.r EXCEPT ![n + 1] = IF r1 < 0 THEN 0 ELSE r1],
             t |-> rt.t + new_spread_rate],
            todo \ {n}, old_particle_state, new_state)

RECURSIVE NeighborRepair_totalDrift(_, _, _, _, _, _)
\* neighbor repair that repairs the neighbors but not the running total
NeighborRepair_totalDrift(rls, cfg, rt, todo, old_particle_state, new_state) ==
  IF todo = {} THEN rt
  ELSE LET n == CHOOSE m \in todo : TRUE
           old_spread_rate ==
             get_neighbor_reactivity(rls, cfg[n + 1], old_particle_state)
           new_spread_rate ==
             get_neighbor_reactivity(rls, cfg[n + 1], new_state)
           r1 == rt.r[n + 1] - old_spread_rate + new_spread_rate
       IN NeighborRepair_totalDrift(rls, cfg,
            [r |-> [rt.r EXCEPT ![n + 1] = IF r1 < 0 THEN 0 ELSE r1],
             t |-> rt.t],
            todo \ {n}, old_particle_state, new_state)

RECURSIVE NeighborRepair(_, _, _, _, _, _)
\* "Update surrounding rates & total rate"; rt = [r |-> reactivities, t |-> total]
NeighborRepair(rls, cfg, rt, todo, old_particle_state, new_state) ==
  IF todo = {} THEN rt
  ELSE LET n == CHOOSE m \in todo : TRUE
           old_spread_rate ==
             get_neighbor_reactivity(rls, cfg[n + 1], old_particle_state)
           new_spread_rate ==
             get_neighbor_reactivity(rls, cfg[n + 1], new_state)
           r1 == rt.r[n + 1] - old_spread_rate + new_spread_rate
       IN NeighborRepair(rls, cfg,
            [r |-> [rt.r EXCEPT ![n + 1] = IF r1 < 0 THEN 0 ELSE r1],
             t |-> rt.t - old_spread_rate + new_spread_rate],
            todo \ {n}, old_particle_state, new_state)

RECURSIVE SortByIndex(_)
\* changing_weights.sort_by(|a, b| (a.0).cmp(&b.0)), an insertion sort
SortByIndex(pairs) ==
  IF Len(pairs) <= 1 THEN pairs
  ELSE LET rest == SortByIndex(Tail(pairs))
           x == Head(pairs)
           before == SelectSeq(rest, LAMBDA p : p[1] < x[1])
           after == SelectSeq(rest, LAMBDA p : p[1] >= x[1])
       IN before \o <<x>> \o after

RECURSIVE SetToSeq(_)
SetToSeq(S) ==
  IF S = {} THEN << >>
  ELSE LET x == CHOOSE y \in S : TRUE IN <<x>> \o SetToSeq(S \ {x})

\* a patch list that holds the event vertex only
ChangingWeights_onlyVertex(reacts, update_location, neighs) ==
  <<<<update_location, reacts[update_location + 1]>>>>

\* "Update rates for selecting the next point": the patch list
ChangingWeights(reacts, update_location, neighs) ==
  SortByIndex(<<<<update_location, reacts[update_location + 1]>>>>
                \o [k \in 1 .. Cardinality(neighs) |->
                      <<SetToSeq(neighs)[k], reacts[SetToSeq(neighs)[k] + 1]>>])

\* a record loop that appends the whole batch without asking the halt policy
RecordLoop_noRecheck(halt, record, recorded, prev_state, time, taken, k) ==
  [record |-> record \o Copies(prev_state, k),
   recorded |-> recorded + (IF k <= 0 THEN 0 ELSE k)]

RECURSIVE RecordLoop_checkFirst(_, _, _, _, _, _, _)
\* a record loop that asks the halt policy before each copy, not after it
RecordLoop_checkFirst(halt, record, recorded, prev_state, time, taken, k) ==
  IF k <= 0 THEN [record |-> record, recorded |-> recorded]
  ELSE IF ~should_continue(halt, time, recorded, taken)
  THEN [record |-> record, recorded |-> recorded]
  ELSE RecordLoop_checkFirst(halt, record \o prev_state, recorded + 1,
                             prev_state, time, taken, k - 1)

RECURSIVE RecordLoop(_, _, _, _, _, _, _)
\* "Record new state": k copies of prev_state, the halt policy checked after each
RecordLoop(halt, record, recorded, prev_state, time, taken, k) ==
  IF k <= 0 THEN [record |-> record, recorded |-> recorded]
  ELSE IF ~should_continue(halt, time, recorded + 1, taken)
  THEN [record |-> record \o prev_state, recorded |-> recorded + 1]
  ELSE RecordLoop(halt, record \o prev_state, recorded + 1, prev_state,
                  time, taken, k - 1)

\* ---------------------------------------------------------------- state
VARIABLES
  \* the arguments of particle_system_solver (mod.rs:142-146)
  ips_rules, graph, initial_condition, halting_condition, record_condition,
  states,            \* mod.rs:158, the configuration
  reactivities,      \* mod.rs:161
  total_reactivity,  \* mod.rs:181
  distr_location,    \* mod.rs:191, the weights held by the weighted index
  states_record,     \* mod.rs:183, the flat record
  time_passed,       \* mod.rs:186, in ticks
  steps_recorded,    \* mod.rs:187
  steps_taken,       \* mod.rs:188
  pc,        \* "start", "loop", "final", "done" or "panic"; "query" and
             \* "answered" for a call of get_neighbors alone
  exit,      \* how the loop was left: "none", "halt", "zero_categorical",
             \* "all_weights_zero"
  \* a call of Graph::get_neighbors from outside the solver (grid_n_d.rs:94)
  particle,  \* its argument
  neighbors  \* the set it returned

inputs == <<ips_rules, graph, initial_condition, halting_condition,
            record_condition>>
vars == <<ips_rules, graph, initial_condition, halting_condition,
          record_condition, states, reactivities, total_reactivity,
          distr_location, states_record, time_passed, steps_recorded,
          steps_taken, pc, exit, particle, neighbors>>
query == <<particle, neighbors>>

Configurations(rls, g) ==
  [1 .. Graph_nr_points(g) -> all_states(rls)]

\* the call of particle_system_solver, before its first statement, with the
\* arguments drawn from the given sets
Call(rule_sets, graphs, halts, records) ==
  /\ ips_rules \in rule_sets
  /\ graph \in graphs
  /\ initial_condition \in Configurations(ips_rules, graph)
  /\ halting_condition \in halts
  /\ record_condition \in records
  /\ states = initial_condition
  /\ reactivities = << >>
  /\ total_reactivity = 0
  /\ distr_location = << >>
  /\ states_record = << >>
  /\ time_passed = 0
  /\ steps_recorded = 0
  /\ steps_taken = 0
  /\ pc = "start"
  /\ exit = "none"
  /\ particle = 0
  /\ neighbors = {}

\* every halt and record policy, on the circle of three vertices
Init ==
  Call({SIProcess(2, 1), VoterProcess(2, 1)}, {GridND_from(<<3>>)},
       HaltConditions, RecordConditions)

\* every rule set on every graph, run for a number of events
InitRates ==
  Call(RuleSets, Graphs, {StepsTaken(l) : l \in 0 .. MaxLimit}, {Final})

\* Phase I with a length check that lets a longer configuration pass
Initialize_acceptLonger ==
  /\ pc = "start"
  /\ UNCHANGED query
  /\ IF Len(states) < Graph_nr_points(graph)
     THEN /\ pc' = "panic"
          /\ UNCHANGED <<inputs, states, reactivities, total_reactivity,
                         distr_location, states_record, time_passed,
                         steps_recorded, steps_taken, exit>>
     ELSE LET r == InitialReactivities(ips_rules, graph, states)
              built == WeightedIndex_new(r)
          IN /\ reactivities' = r
             /\ total_reactivity' = SumSeq(r)
             /\ states_record' = states
             /\ time_passed' = 0
             /\ steps_recorded' = 1
             /\ steps_taken' = 0
             /\ distr_location' = built.weights
             /\ pc' = IF built.ok THEN "loop" ELSE "panic"
             /\ UNCHANGED <<inputs, states, exit>>

\* Phase I
Initialize ==
  /\ pc = "start"
  /\ UNCHANGED query
  /\ IF Len(states) # Graph_nr_points(graph)
     THEN /\ pc' = "panic"
          /\ UNCHANGED <<inputs, states, reactivities, total_reactivity,
                         distr_location, states_record, time_passed,
                         steps_recorded, steps_taken, exit>>
     ELSE LET r == InitialReactivities(ips_rules, graph, states)
              built == WeightedIndex_new(r)
          IN /\ reactivities' = r
             /\ total_reactivity' = SumSeq(r)
             /\ states_record' = states
             /\ time_passed' = 0
             /\ steps_recorded' = 1
             /\ steps_taken' = 0
             /\ distr_location' = built.weights
             /\ pc' = IF built.ok THEN "loop" ELSE "panic"
             /\ UNCHANGED <<inputs, states, exit>>

\* Phase II: one iteration of the simulation loop, in runs of at most
\* max_events iterations
LoopIteration(max_events) ==
  /\ pc = "loop"
  /\ should_continue(halting_condition, time_passed, steps_recorded, steps_taken)
  /\ steps_taken < max_events
  /\ UNCHANGED query
  /\ \E time_step \in 1 .. MaxDt :
     \E update_location \in {v \in 0 .. Graph_nr_points(graph) - 1 :
                               distr_location[v + 1] > 0} :
       LET taken == steps_taken + 1
           prev_state == states
           time == time_passed + time_step
           neighs == Graph_get_neighbors(graph, update_location)
           neigh_state_counts == NeighCounts(states, neighs)
           change_rates ==
             [i \in 1 .. Len(all_states_vec(ips_rules)) |->
                get_mutation_rate(ips_rules, states[update_location + 1],
                                  all_states_vec(ips_rules)[i],
                                  neigh_state_counts)]
       IN /\ steps_taken' = taken
          /\ time_passed' = time
          /\ IF \A i \in DOMAIN change_rates : change_rates[i] = 0
             THEN \* Err(AllWeightsZero) => break
                  /\ pc' = "final"
                  /\ exit' = "zero_categorical"
                  /\ UNCHANGED <<inputs, states, reactivities, total_reactivity,
                                 distr_location, states_record, steps_recorded>>
             ELSE \E sample \in {i \in DOMAIN change_rates : change_rates[i] > 0} :
                  LET new_state == int_to_state(ips_rules)[sample]
                      old_particle_state == states[update_location + 1]
                      cfg == [states EXCEPT ![update_location + 1] = new_state]
                      own == OwnRate(ips_rules, cfg, neighs, new_state)
                      rt0 == [r |-> [reactivities EXCEPT ![update_location + 1] = own],
                              t |-> total_reactivity
                                      - reactivities[update_location + 1] + own]
                      rt == NeighborRepair(ips_rules, cfg, rt0, neighs,
                                           old_particle_state, new_state)
                      changing_weights ==
                        ChangingWeights(rt.r, update_location, neighs)
                      upd == update_weights(distr_location, changing_weights)
                      rec == RecordLoop(halting_condition, states_record,
                                        steps_recorded, prev_state, time, taken,
                                        how_often_record(record_condition, time,
                                                         time_step, taken, FALSE))
                  IN /\ states' = cfg
                     /\ reactivities' = rt.r
                     /\ total_reactivity' = rt.t
                     /\ distr_location' = upd.weights
                     /\ UNCHANGED inputs
                     /\ IF upd.ok
                        THEN /\ states_record' = rec.record
                             /\ steps_recorded' = rec.recorded
                             /\ pc' = "loop"
                             /\ exit' = exit
                        ELSE /\ UNCHANGED <<states_record, steps_recorded>>
                             /\ pc' = IF upd.err = "AllWeightsZero"
                                      THEN "final" ELSE "panic"
                             /\ exit' = IF upd.err = "AllWeightsZero"
                                        THEN "all_weights_zero" ELSE exit

Event == LoopIteration(MaxEvents)

\* the same iteration in runs long enough to reach an absorbing configuration
EventLong == LoopIteration(MaxEventsLong)

\* the while condition turns false
HaltExit ==
  /\ pc = "loop"
  /\ ~should_continue(halting_condition, time_passed, steps_recorded, steps_taken)
  /\ pc' = "final"
  /\ exit' = "halt"
  /\ UNCHANGED query
  /\ UNCHANGED <<inputs, states, reactivities, total_reactivity, distr_location,
                 states_record, time_passed, steps_recorded, steps_taken>>

\* Phase III: "Record final state (if that record condition is given)"
Finalize ==
  /\ pc = "final"
  /\ states_record' =
       states_record
         \o Copies(states, how_often_record(record_condition, time_passed, 0,
                                            steps_taken, TRUE))
  /\ pc' = "done"
  /\ UNCHANGED query
  /\ UNCHANGED <<inputs, states, reactivities, total_reactivity, distr_location,
                 time_passed, steps_recorded, steps_taken, exit>>

Next == Initialize \/ Event \/ HaltExit \/ Finalize

Spec == Init /\ [][Next]_vars

SpecRates == InitRates /\ [][Next]_vars

\* halt policies that cannot fire within MaxEventsLong events
NonFiringHalts ==
  {StepsTaken(MaxEventsLong), TimePassed(MaxEventsLong * MaxDt)}

\* runs of the epidemic rule sets that die out, under halt policies that do not
\* fire and one that does
InitLong ==
  Call({SIRProcess(2, 1), SIRProcess(1, 2), SIProcess(0, 1), SIProcess(0, 2)},
       Graphs, NonFiringHalts \cup {StepsTaken(0)}, {Final})

NextLong == Initialize \/ EventLong \/ HaltExit \/ Finalize

SpecLong == InitLong /\ [][NextLong]_vars

\* the grids of one, two and three axes, every axis glued or not
GridGraphs ==
  LET D == 2 .. MaxDim
  IN {GridND_from_glue(<<a>>, <<g>>) : a \in D, g \in BOOLEAN}
       \cup {GridND_from_glue(<<a, b>>, <<g, h>>) :
                a \in D, b \in D, g \in BOOLEAN, h \in BOOLEAN}
       \cup {GridND_from_glue(<<a, b, c>>, <<g, h, k>>) :
                a \in D, b \in D, c \in D,
                g \in BOOLEAN, h \in BOOLEAN, k \in BOOLEAN}

\* a grid and one of its vertices; no solver runs
InitGrid ==
  /\ graph \in GridGraphs
  /\ particle \in Vertices(graph)
  /\ neighbors = {}
  /\ pc = "query"
  /\ ips_rules = VoterProcess(2, 1)
  /\ initial_condition = << >>
  /\ halting_condition = StepsTaken(0)
  /\ record_condition = Final
  /\ states = << >>
  /\ reactivities = << >>
  /\ total_reactivity = 0
  /\ distr_location = << >>
  /\ states_record = << >>
  /\ time_passed = 0
  /\ steps_recorded = 0
  /\ steps_taken = 0
  /\ exit = "none"

\* graph.get_neighbors(particle)
GetNeighbors ==
  /\ pc = "query"
  /\ neighbors' = get_neighbors(graph, particle)
  /\ pc' = "answered"
  /\ UNCHANGED <<inputs, states, reactivities, total_reactivity,
                 distr_location, states_record, time_passed, steps_recorded,
                 steps_taken, exit, particle>>

NextGrid == GetNeighbors

SpecGrid == InitGrid /\ [][NextGrid]_vars

\* a graph of any of the three kinds and one of its vertices; no solver runs
InitGraphs ==
  /\ graph \in GridGraphs \cup Lattices(MaxCells) \cup FullLattices
                 \cup ErdosRenyiGraphs
  /\ particle \in 0 .. Graph_nr_points(graph) - 1
  /\ neighbors = {}
  /\ pc = "query"
  /\ ips_rules = VoterProcess(2, 1)
  /\ initial_condition = << >>
  /\ halting_condition = StepsTaken(0)
  /\ record_condition = Final
  /\ states = << >>
  /\ reactivities = << >>
  /\ total_reactivity = 0
  /\ distr_location = << >>
  /\ states_record = << >>
  /\ time_passed = 0
  /\ steps_recorded = 0
  /\ steps_taken = 0
  /\ exit = "none"

\* graph.get_neighbors(particle) on a Box<dyn Graph>
QueryGraph ==
  /\ pc = "query"
  /\ neighbors' = Graph_get_neighbors(graph, particle)
  /\ pc' = "answered"
  /\ UNCHANGED <<inputs, states, reactivities, total_reactivity,
                 distr_location, states_record, time_passed, steps_recorded,
                 steps_taken, exit, particle>>

NextGraphs == QueryGraph

SpecGraphs == InitGraphs /\ [][NextGraphs]_vars

\* connected grids for the voter rule set: circles, lines, a 2x2 torus and a
\* 2x2 grid glued along one axis only
VoterGraphs ==
  { GridND_from(<<3>>), GridND_from_glue(<<3>>, <<FALSE>>),
    GridND_from(<<4>>), GridND_from_glue(<<4>>, <<FALSE>>),
    GridND_from(<<2, 2>>), GridND_from_glue(<<2, 2>>, <<FALSE, TRUE>>) }

\* voter runs of one event from every configuration
InitVoter ==
  Call({VoterProcess(2, 1), VoterProcess(3, 1)}, VoterGraphs,
       {StepsTaken(0)}, {Final})

SpecVoter == InitVoter /\ [][Next]_vars

\* ---- the solver on diluted lattices ----
\* DilutedLattice::new(dim_x, dim_y, p, ..) as main builds it from
\* --graph-diluted-lattice: a column of three, a full 2 x 2 lattice, and a
\* 2 x 2 lattice that lost two of its edges
SolverLattices ==
  { DilutedLattice_new(1, 3, [i \in 1 .. 6 |-> TRUE]),
    DilutedLattice_new(2, 2, [i \in 1 .. 8 |-> TRUE]),
    DilutedLattice_new(2, 2, [i \in 1 .. 8 |-> i \notin {1, 6}]) }

InitLattice ==
  Call({SIProcess(2, 1), VoterProcess(2, 1)}, SolverLattices,
       {StepsTaken(0), StepsTaken(1)}, {EveryNthStep(1), Final})

SpecLattice == InitLattice /\ [][Next]_vars

\* ---- the two-species rule set with three different rates ----
InitTwoSI ==
  Call({TwoSIProcess(3, 2, 1), TwoSIProcess(1, 1, 2)},
       {GridND_from(<<3>>), GridND_from(<<2, 2>>)},
       {StepsTaken(0), StepsTaken(1)}, {Final})

SpecTwoSI == InitTwoSI /\ [][Next]_vars

\* ---- calls with an initial configuration of any length ----
\* initial_condition is a Vec<usize> the caller builds; nothing ties its
\* length to the graph before the call
InitAnyLength ==
  /\ ips_rules \in {SIProcess(2, 1), VoterProcess(2, 1)}
  /\ graph \in {GridND_from(<<3>>), GridND_from(<<2, 2>>)}
  /\ initial_condition \in
       UNION {[1 .. len -> all_states(ips_rules)] :
                len \in 0 .. nr_points(graph) + 1}
  /\ halting_condition \in {StepsTaken(0), StepsTaken(1)}
  /\ record_condition \in {EveryNthStep(1), Final}
  /\ states = initial_condition
  /\ reactivities = << >>
  /\ total_reactivity = 0
  /\ distr_location = << >>
  /\ states_record = << >>
  /\ time_passed = 0
  /\ steps_recorded = 0
  /\ steps_taken = 0
  /\ pc = "start"
  /\ exit = "none"
  /\ particle = 0
  /\ neighbors = {}

SpecAnyLength == InitAnyLength /\ [][Next]_vars

\* ---- the rate functions of the SI / contact rule sets, asked directly ----
MaxRate == 2

\* ContactProcessRules { birth_rate, death_rate } over the enum
\* ContactProcessStates { Susceptible, Infected }, written 0 and 1
ContactProcessRules(b, d) ==
  [kind |-> "Contact", birth_rate |-> b, death_rate |-> d, compete_rate |-> 0,
   nr_parties |-> 0, change_rate |-> 0]

Contact_vacuum(rules, current, goal) ==
  IF current = 1 /\ goal = 0 THEN rules.birth_rate ELSE 0

Contact_neighbor(rules, current, goal, sender) ==
  IF current = 0 /\ goal = 1 /\ sender = 1 THEN rules.death_rate ELSE 0

\* states holds the arguments <<current, goal, sender>>, reactivities the
\* answers <<vacuum rate, neighbor rate>>
InitSIRates ==
  /\ ips_rules \in {SIProcess(b, d) : b, d \in 0 .. MaxRate}
                     \cup {ContactProcessRules(b, d) : b, d \in 0 .. MaxRate}
  /\ graph = GridND_from(<<2>>)
  /\ initial_condition = << >>
  /\ halting_condition = StepsTaken(0)
  /\ record_condition = Final
  /\ states \in [1 .. 3 -> {0, 1}]
  /\ reactivities = << >>
  /\ total_reactivity = 0
  /\ distr_location = << >>
  /\ states_record = << >>
  /\ time_passed = 0
  /\ steps_recorded = 0
  /\ steps_taken = 0
  /\ pc = "query"
  /\ exit = "none"
  /\ particle = 0
  /\ neighbors = {}

QueryRates ==
  /\ pc = "query"
  /\ reactivities' =
       IF ips_rules.kind = "Contact"
       THEN <<Contact_vacuum(ips_rules, states[1], states[2]),
              Contact_neighbor(ips_rules, states[1], states[2], states[3])>>
       ELSE <<get_vacuum_mutation_rate(ips_rules, states[1], states[2]),
              get_neighbor_mutation_rate(ips_rules, states[1], states[2],
                                         states[3])>>
  /\ pc' = "answered"
  /\ UNCHANGED <<inputs, states, total_reactivity, distr_location,
                 states_record, time_passed, steps_recorded, steps_taken,
                 exit, query>>

NextSIRates == QueryRates

SpecSIRates == InitSIRates /\ [][NextSIRates]_vars

\* ---- the event loop in binary floating point ----
\* The rates, reactivities and the total are f64.  f64 keeps 53 significant
\* bits; here a value keeps MantissaBits of them, rates are counted in whole
\* units, and every sum or difference is rounded to nearest, ties to even.
MantissaBits == 3

RECURSIVE f64_ulp(_, _)
\* the spacing of the representable values around the magnitude m
f64_ulp(m, u) == IF m < (2 ^ MantissaBits) * u THEN u ELSE f64_ulp(m, 2 * u)

f64_round(x) ==
  LET m == IF x < 0 THEN 0 - x ELSE x
      u == f64_ulp(m, 1)
      q == m \div u
      rem == m % u
      up == 2 * rem > u \/ (2 * rem = u /\ q % 2 = 1)
      r == u * (IF up THEN q + 1 ELSE q)
  IN IF x < 0 THEN 0 - r ELSE r

f64_add(a, b) == f64_round(a + b)

f64_sub(a, b) == f64_round(a - b)

RECURSIVE f64_sum(_, _)
\* reactivities.iter().sum(): a left fold that starts at 0.0
f64_sum(acc, s) ==
  IF s = << >> THEN acc ELSE f64_sum(f64_add(acc, Head(s)), Tail(s))

\* WeightedIndex::new() over f64 weights
WeightedIndex_new_f64(weights) ==
  IF weights = << >> THEN [ok |-> FALSE, err |-> "NoItem", weights |-> << >>]
  ELSE IF \E i \in DOMAIN weights : weights[i] < 0
  THEN [ok |-> FALSE, err |-> "InvalidWeight", weights |-> << >>]
  ELSE IF f64_sum(0, weights) = 0
  THEN [ok |-> FALSE, err |-> "AllWeightsZero", weights |-> << >>]
  ELSE [ok |-> TRUE, err |-> "none", weights |-> weights]

\* the orders in which "for n in &neighs" can visit a HashSet<u64>: the hasher
\* is keyed at random, so each enumeration of the set is possible
IterationOrders(neighs) ==
  {order \in [1 .. Cardinality(neighs) -> neighs] :
     \A i, j \in DOMAIN order : order[i] = order[j] => i = j}

RECURSIVE NeighborRepair_f64(_, _, _, _, _, _)
\* "Update surrounding rates & total rate", visiting the neighbors in the
\* given order; rt = [r |-> reactivities, t |-> total]
NeighborRepair_f64(rls, cfg, rt, order, old_particle_state, new_state) ==
  IF order = << >> THEN rt
  ELSE LET n == Head(order)
           old_spread_rate ==
             get_neighbor_reactivity(rls, cfg[n + 1], old_particle_state)
           new_spread_rate ==
             get_neighbor_reactivity(rls, cfg[n + 1], new_state)
           r1 == f64_add(f64_sub(rt.r[n + 1], old_spread_rate), new_spread_rate)
       IN NeighborRepair_f64(rls, cfg,
            [r |-> [rt.r EXCEPT ![n + 1] = IF r1 < 0 THEN 0 ELSE r1],
             t |-> f64_add(f64_sub(rt.t, old_spread_rate), new_spread_rate)],
            Tail(order), old_particle_state, new_state)

\* reactivities and total after the event that sets update_location to
\* new_state, the neighbors visited in the given order
EventRates_f64(rls, g, cfg0, reacts, total, update_location, new_state, order) ==
  LET neighs == get_neighbors(g, update_location)
      cfg == [cfg0 EXCEPT ![update_location + 1] = new_state]
      own == OwnRate(rls, cfg, neighs, new_state)
      rt0 == [r |-> [reacts EXCEPT ![update_location + 1] = own],
              t |-> f64_add(f64_sub(total, reacts[update_location + 1]), own)]
  IN NeighborRepair_f64(rls, cfg, rt0, order, cfg0[update_location + 1],
                        new_state)

\* three parties or two infections, on the circle of four vertices
InitF64 ==
  Call({VoterProcess(3, 3), VoterProcess(3, 5), TwoSIProcess(5, 3, 2)},
       {GridND_from(<<4>>)}, {StepsTaken(1), StepsTaken(MaxEvents)}, {Final})

\* Phase I in f64
Initialize_f64 ==
  /\ pc = "start"
  /\ UNCHANGED query
  /\ IF Len(states) # nr_points(graph)
     THEN /\ pc' = "panic"
          /\ UNCHANGED <<inputs, states, reactivities, total_reactivity,
                         distr_location, states_record, time_passed,
                         steps_recorded, steps_taken, exit>>
     ELSE LET r == InitialReactivities(ips_rules, graph, states)
              built == WeightedIndex_new_f64(r)
          IN /\ reactivities' = r
             /\ total_reactivity' = f64_sum(0, r)
             /\ states_record' = states
             /\ time_passed' = 0
             /\ steps_recorded' = 1
             /\ steps_taken' = 0
             /\ distr_location' = built.weights
             /\ pc' = IF built.ok THEN "loop" ELSE "panic"
             /\ UNCHANGED <<inputs, states, exit>>

\* Phase II in f64: one iteration of the loop; the event vertex is kept in
\* particle and the set it iterated in neighbors
LoopIteration_f64 ==
  /\ pc = "loop"
  /\ should_continue(halting_condition, time_passed, steps_recorded, steps_taken)
  /\ steps_taken < MaxEvents
  /\ \E time_step \in 1 .. MaxDt :
     \E update_location \in {v \in Vertices(graph) : distr_location[v + 1] > 0} :
       LET taken == steps_taken + 1
           prev_state == states
           time == time_passed + time_step
           neighs == get_neighbors(graph, update_location)
           neigh_state_counts == NeighCounts(states, neighs)
           change_rates ==
             [i \in 1 .. Len(all_states_vec(ips_rules)) |->
                get_mutation_rate(ips_rules, states[update_location + 1],
                                  all_states_vec(ips_rules)[i],
                                  neigh_state_counts)]
       IN /\ steps_taken' = taken
          /\ time_passed' = time
          /\ particle' = update_location
          /\ neighbors' = neighs
          /\ IF \A i \in DOMAIN change_rates : change_rates[i] = 0
             THEN /\ pc' = "final"
                  /\ exit' = "zero_categorical"
                  /\ UNCHANGED <<inputs, states, reactivities, total_reactivity,
                                 distr_location, states_record, steps_recorded>>
             ELSE \E sample \in {i \in DOMAIN change_rates : change_rates[i] > 0} :
                  \E order \in IterationOrders(neighs) :
                  LET new_state == int_to_state(ips_rules)[sample]
                      rt == EventRates_f64(ips_rules, graph, states,
                                           reactivities, total_reactivity,
                                           update_location, new_state, order)
                      changing_weights ==
                        ChangingWeights(rt.r, update_location, neighs)
                      upd == update_weights(distr_location, changing_weights)
                      rec == RecordLoop(halting_condition, states_record,
                                        steps_recorded, prev_state, time, taken,
                                        how_often_record(record_condition, time,
                                                         time_step, taken, FALSE))
                  IN /\ states' = [states EXCEPT ![update_location + 1] = new_state]
                     /\ reactivities' = rt.r
                     /\ total_reactivity' = rt.t
                     /\ distr_location' = upd.weights
                     /\ UNCHANGED inputs
                     /\ IF upd.ok
                        THEN /\ states_record' = rec.record
                             /\ steps_recorded' = rec.recorded
                             /\ pc' = "loop"
                             /\ exit' = exit
                        ELSE /\ UNCHANGED <<states_record, steps_recorded>>
                             /\ pc' = IF upd.err = "AllWeightsZero"
                                      THEN "final" ELSE "panic"
                             /\ exit' = IF upd.err = "AllWeightsZero"
                                        THEN "all_weights_zero" ELSE exit

NextF64 == Initialize_f64 \/ LoopIteration_f64 \/ HaltExit \/ Finalize

SpecF64 == InitF64 /\ [][NextF64]_vars

\* ---- the default methods of the rule-set trait, asked directly ----
MaxCount == 2

f64_mul(a, b) == f64_round(a * b)

\* the additions "running_rate += (*neigh_count as f64) * rate" of one goal,
\* the entries of the HashMap visited in the given order
NeighborTerms_f64(rules, current, goal, neighbor_counts, order) ==
  [k \in 1 .. Len(order) |->
     f64_mul(neighbor_counts[order[k]],
             get_neighbor_mutation_rate(rules, current, goal, order[k]))]

RECURSIVE ReactivityTerms_f64(_, _, _, _, _)
\* every addition get_reactivity makes to running_rate, goals from index i on
ReactivityTerms_f64(rules, current, neighbor_counts, order, i) ==
  IF i > Len(all_states_vec(rules)) THEN << >>
  ELSE <<get_vacuum_mutation_rate(rules, current, all_states_vec(rules)[i])>>
         \o NeighborTerms_f64(rules, current, all_states_vec(rules)[i],
                              neighbor_counts, order)
         \o ReactivityTerms_f64(rules, current, neighbor_counts, order, i + 1)

get_reactivity_f64(rules, current, neighbor_counts, order) ==
  f64_sum(0, ReactivityTerms_f64(rules, current, neighbor_counts, order, 1))

get_mutation_rate_f64(rules, current, goal, neighbor_counts, order) ==
  f64_sum(get_vacuum_mutation_rate(rules, current, goal),
          NeighborTerms_f64(rules, current, goal, neighbor_counts, order))

get_neighbor_reactivity_f64(rules, current, sender) ==
  f64_sum(0, [i \in 1 .. Len(all_states_vec(rules)) |->
                get_neighbor_mutation_rate(rules, current,
                                           all_states_vec(rules)[i], sender)])

\* the HashMap the solver builds from a count per state: a state that no
\* neighbor has is not a key
CountsMap(rules, per_state) ==
  [st \in {t \in all_states(rules) : per_state[t + 1] > 0} |->
     per_state[st + 1]]

\* neigh_counts.insert(state, neigh_counts.get(state).unwrap_or(&0) + 1)
InsertNeighbor(neighbor_counts, state) ==
  [st \in DOMAIN neighbor_counts \cup {state} |->
     IF st = state
     THEN (IF st \in DOMAIN neighbor_counts THEN neighbor_counts[st] ELSE 0) + 1
     ELSE neighbor_counts[st]]

\* states holds <<current, sender>>, initial_condition the count per state
InitRowSums ==
  /\ ips_rules \in RuleSets \cup {VoterProcess(3, 3), TwoSIProcess(5, 3, 2)}
  /\ graph = GridND_from(<<2>>)
  /\ initial_condition \in
       [1 .. Len(all_states_vec(ips_rules)) -> 0 .. MaxCount]
  /\ halting_condition = StepsTaken(0)
  /\ record_condition = Final
  /\ states \in [1 .. 2 -> all_states(ips_rules)]
  /\ reactivities = << >>
  /\ total_reactivity = 0
  /\ distr_location = << >>
  /\ states_record = << >>
  /\ time_passed = 0
  /\ steps_recorded = 0
  /\ steps_taken = 0
  /\ pc = "query"
  /\ exit = "none"
  /\ particle = 0
  /\ neighbors = {}

\* the answers <<get_reactivity, the sum of get_mutation_rate over the goals,
\* get_reactivity with one more neighbor in state sender,
\* get_neighbor_reactivity>>: in reactivities with exact arithmetic, in
\* distr_location with f64 arithmetic
QueryRowSums ==
  /\ pc = "query"
  /\ LET current == states[1]
         sender == states[2]
         counts == CountsMap(ips_rules, initial_condition)
         more == InsertNeighbor(counts, sender)
     IN /\ reactivities' =
             <<get_reactivity(ips_rules, current, counts),
               SumSeq([i \in 1 .. Len(all_states_vec(ips_rules)) |->
                         get_mutation_rate(ips_rules, current,
                                           all_states_vec(ips_rules)[i],
                                           counts)]),
               get_reactivity(ips_rules, current, more),
               get_neighbor_reactivity(ips_rules, current, sender)>>
        /\ \E order \in IterationOrders(DOMAIN counts) :
           \E order_more \in IterationOrders(DOMAIN more) :
             distr_location' =
               <<get_reactivity_f64(ips_rules, current, counts, order),
                 f64_sum(0, [i \in 1 .. Len(all_states_vec(ips_rules)) |->
                               get_mutation_rate_f64(
                                 ips_rules, current,
                                 all_states_vec(ips_rules)[i], counts, order)]),
                 get_reactivity_f64(ips_rules, current, more, order_more),
                 get_neighbor_reactivity_f64(ips_rules, current, sender)>>
  /\ pc' = "answered"
  /\ UNCHANGED <<inputs, states, total_reactivity, states_record, time_passed,
                 steps_recorded, steps_taken, exit, query>>

NextRowSums == QueryRowSums

SpecRowSums == InitRowSums /\ [][NextRowSums]_vars

\* ---- the rate bookkeeping of one event, as a function ----
\* "Compute own new rate" and "Update surrounding rates & total rate" for the
\* write states[update_location] = new_state; cfg0 is the configuration
\* before the write
EventRates(rls, g, cfg0, reacts, total, update_location, new_state) ==
  LET neighs == Graph_get_neighbors(g, update_location)
      cfg == [cfg0 EXCEPT ![update_location + 1] = new_state]
      own == OwnRate(rls, cfg, neighs, new_state)
      rt0 == [r |-> [reacts EXCEPT ![update_location + 1] = own],
              t |-> total - reacts[update_location + 1] + own]
  IN NeighborRepair(rls, cfg, rt0, neighs, cfg0[update_location + 1],
                    new_state)

\* the events the loop can take next: a vertex the weighted index can return
\* and a goal state its categorical can return
EnabledEvents ==
  {e \in (0 .. Graph_nr_points(graph) - 1) \X all_states(ips_rules) :
     /\ distr_location[e[1] + 1] > 0
     /\ get_mutation_rate(ips_rules, states[e[1] + 1], e[2],
                          NeighCounts(states,
                                      Graph_get_neighbors(graph, e[1]))) > 0}


\* ---------------------------------------------------------------- properties
\* the two species of TwoSIProcess exchanged: "two identical invasive species
\* (states 1 and 2)"
SwapSpecies(state) == IF state = 1 THEN 2 ELSE IF state = 2 THEN 1 ELSE state

SwapSpeciesIn(cfg) == [i \in DOMAIN cfg |-> SwapSpecies(cfg[i])]

N == nr_points(graph)

\* the solver has passed Phase I
Started == pc # "start"

\* the solver has returned its result tuple
Returned == pc = "done"

\* row sum of vertex v under the configuration cfg
RowSum(rls, g, cfg, v) ==
  SumOver(all_states(rls),
          [goal \in all_states(rls) |->
             get_mutation_rate(rls, cfg[v + 1], goal,
                               NeighCounts(cfg, get_neighbors(g, v)))])

InitialTotal ==
  SumSeq(InitialReactivities(ips_rules, graph, initial_condition))

\* the last snapshot of the record
LastSnapshot == SubSeq(states_record, Len(states_record) - N + 1, Len(states_record))

\* the first snapshot of the record
FirstSnapshot == SubSeq(states_record, 1, N)

\* snapshot k of the flat record, k = 0 being the first
Snapshot(k) == SubSeq(states_record, k * N + 1, (k + 1) * N)

\* the number of snapshots held by the record
NrSnapshots == Len(states_record) \div N

\* C1: after initialization and after every event, reactivity[i] is the sum
\* over all goal states of mutation_rate(cfg[i], goal, counts of the states of
\* neighbors(i)) under the current configuration.
C1_ReactivityIsRowSum ==
  Started =>
    \A v \in Vertices(graph) :
      reactivities[v + 1] = RowSum(ips_rules, graph, states, v)

\* two events done, and the repair has changed the rate of a vertex
C1_Witness ==
  /\ pc = "loop"
  /\ steps_taken = 2
  /\ \E v \in Vertices(graph) :
       /\ states[v + 1] = initial_condition[v + 1]
       /\ reactivities[v + 1]
            # InitialReactivities(ips_rules, graph, initial_condition)[v + 1]

\* C2: after initialization and after every event, total_reactivity is the
\* sum of the reactivity vector.
C2_TotalIsSum == Started => total_reactivity = SumSeq(reactivities)

\* two events done, and the total is no longer the initial one
C2_Witness ==
  /\ pc = "loop"
  /\ steps_taken = 2
  /\ total_reactivity # InitialTotal
  /\ total_reactivity > 0

\* C3: wherever the solver samples the event vertex, the weights of the index
\* are the reactivity vector, entry for entry: the patched index is the index
\* built from scratch from the reactivity vector.
C3_IndexIsReactivity ==
  pc = "loop" =>
    /\ distr_location = reactivities
    /\ distr_location = WeightedIndex_new(reactivities).weights

\* the index has been patched by two events and is sampled again
C3_Witness ==
  /\ pc = "loop"
  /\ steps_taken = 2
  /\ distr_location # InitialReactivities(ips_rules, graph, initial_condition)

\* C4: when the initial total reactivity is zero the solver returns normally,
\* without an event, and the record is the initial configuration twice.
C4_ZeroTotalReturns ==
  (InitialTotal = 0 /\ pc \in {"done", "panic"}) =>
    /\ pc = "done"
    /\ steps_taken = 0
    /\ states_record = initial_condition \o initial_condition

\* C5: whatever the policies and however the loop ends, the last snapshot of
\* the returned record is the returned final configuration.
C5_LastSnapshotIsFinal == Returned => LastSnapshot = states

\* C5 as amended: the last snapshot of the returned record is the final
\* configuration under Final, and under EveryNthStep(n) when events_taken is
\* a multiple of n; under ConstantTime finalization appends nothing, so the
\* record holds the steps_recorded snapshots of the loop only.
C5_LastSnapshotIsFinalWhenAppended ==
  Returned =>
    /\ (\/ record_condition.kind = "Final"
        \/ /\ record_condition.kind = "EveryNthStep"
           /\ steps_taken % record_condition.arg = 0)
         => LastSnapshot = states
    /\ record_condition.kind = "ConstantTime"
         => Len(states_record) = steps_recorded * N

\* the final configuration was appended after an event changed it
C5_Witness ==
  /\ Returned
  /\ record_condition.kind = "Final"
  /\ steps_taken >= 1
  /\ states # initial_condition
  /\ LastSnapshot = states

\* C6: the length of the returned record is the returned number of recorded
\* steps times the number of particles.
C6_RecordLength == Returned => Len(states_record) = steps_recorded * N

\* C7: under the Final record policy the returned record is the final
\* configuration and nothing else.
C7_FinalOnlyRecord ==
  (Returned /\ record_condition.kind = "Final") => states_record = states

\* C8: under StepsTaken(E) no run takes more than E + 1 events, and a run
\* whose loop is ended by the halt policy has taken exactly E + 1 events.
C8_StepsTakenBudget ==
  halting_condition.kind = "StepsTaken" =>
    /\ steps_taken <= halting_condition.limit + 1
    /\ (pc \in {"final", "done"} /\ exit = "halt")
         => steps_taken = halting_condition.limit + 1

\* StepsTaken(1) ended by the halt policy after two events
C8_Witness ==
  /\ Returned
  /\ halting_condition = StepsTaken(1)
  /\ exit = "halt"
  /\ steps_taken = 2

\* C9: StepsTaken(0) on a non-absorbing initial configuration takes no event
\* and returns a record of one snapshot, the initial configuration.
C9_ZeroEvents ==
  (Returned /\ halting_condition = StepsTaken(0) /\ InitialTotal > 0) =>
    /\ steps_taken = 0
    /\ states_record = initial_condition

\* C9 as amended: StepsTaken(0) on a non-absorbing initial configuration
\* takes exactly one event, and the returned record starts with the initial
\* configuration.
C9_OneEvent ==
  (Returned /\ halting_condition = StepsTaken(0) /\ InitialTotal > 0) =>
    /\ steps_taken = 1
    /\ FirstSnapshot = initial_condition

\* Voter(2) under StepsTaken(0) has returned from a mixed configuration
C9_Witness ==
  /\ Returned
  /\ halting_condition = StepsTaken(0)
  /\ ips_rules = VoterProcess(2, 1)
  /\ InitialTotal > 0
  /\ states # initial_condition

\* C10: under StepsRecorded(S), S >= 0, the returned number of recorded
\* snapshots never exceeds S.
C10_RecordedAtMostS ==
  (Returned /\ halting_condition.kind = "StepsRecorded") =>
    steps_recorded <= halting_condition.limit

\* C10 as amended: under StepsRecorded(S) the number of recorded snapshots
\* never exceeds S when S >= 1, and is 1 when S = 0 (the initial snapshot is
\* counted before the halt policy is first asked).
C10_RecordedAtMostSOrOne ==
  (Started /\ halting_condition.kind = "StepsRecorded") =>
    /\ steps_recorded
         <= (IF halting_condition.limit >= 1 THEN halting_condition.limit ELSE 1)
    /\ halting_condition.limit = 0 => steps_recorded = 1

\* an event whose time step crosses two grid lines was cut after one copy
C10_Witness ==
  /\ Returned
  /\ halting_condition = StepsRecorded(2)
  /\ record_condition = ConstantTime(1)
  /\ steps_taken = 1
  /\ time_passed = 2
  /\ steps_recorded = 2

\* C11: under ConstantTime(tau) every grid line k * tau that an event's interval
\* crosses gets exactly one snapshot, the configuration as it was before that
\* event's mutation, also when the interval crosses several grid lines and also
\* on the last event of the run: each loop iteration appends as many copies of
\* the pre-event configuration as its interval crosses grid lines.
C11_EveryGridLineOnce ==
  [][(record_condition.kind = "ConstantTime" /\ steps_taken' = steps_taken + 1)
       => LET tau == record_condition.arg
              crossed == (time_passed' \div tau) - (time_passed \div tau)
          IN states_record' = states_record \o Copies(states, crossed)]_vars

\* C12: under EveryNthStep(n) an event appends exactly one copy of the
\* configuration as it was before that event's mutation if the number of
\* events taken so far is a multiple of n, and appends nothing otherwise.
C12_EveryNthEvent ==
  [][(record_condition.kind = "EveryNthStep" /\ steps_taken' = steps_taken + 1)
       => states_record' =
            states_record
              \o (IF steps_taken' % record_condition.arg = 0
                  THEN states ELSE <<>>)]_vars

\* C13: if every entry of the initial configuration is a member of the rule
\* set's all_states(), then every entry of the configuration and of every
\* recorded snapshot is a member of all_states(), after any sequence of events.
C13_StatesAreMembers ==
  (\A i \in DOMAIN initial_condition :
      initial_condition[i] \in all_states(ips_rules))
    => /\ \A i \in DOMAIN states : states[i] \in all_states(ips_rules)
       /\ \A i \in DOMAIN states_record :
            states_record[i] \in all_states(ips_rules)

\* two events have happened and snapshots of both are in the record
C13_Witness ==
  /\ steps_taken = 2
  /\ states # initial_condition
  /\ Len(states_record) >= 3 * N

\* C14: a run that passed the initial length check ends only by the halt
\* policy returning false, by the weighted index reporting all weights zero,
\* or by an all-zero target-state categorical, in each case returning its
\* result tuple; no abort (panic) is reachable.
C14_NoPanicThreeExits ==
  Len(initial_condition) = N
    => /\ pc # "panic"
       /\ pc \in {"final", "done"}
            => exit \in {"halt", "all_weights_zero", "zero_categorical"}

\* ("all particles are the same")
Unanimous(cfg) == \A i, j \in DOMAIN cfg : cfg[i] = cfg[j]

\* C15: for the voter rule set with K parties on a finite connected graph the
\* total reactivity of a configuration (the sum of get_reactivity over the
\* vertices) is zero if the configuration is unanimous and strictly positive
\* if it is not.
C15_ZeroIffUnanimous ==
  (Started /\ ips_rules.kind = "Voter")
    => LET total == SumSeq(InitialReactivities(ips_rules, graph, states))
       IN IF Unanimous(states) THEN total = 0 ELSE total > 0

\* an event has made a divided configuration of three parties unanimous
C15_Witness ==
  /\ ips_rules.kind = "Voter"
  /\ ips_rules.nr_parties = 3
  /\ steps_taken = 1
  /\ ~Unanimous(initial_condition)
  /\ Unanimous(states)
  /\ SumSeq(InitialReactivities(ips_rules, graph, initial_condition)) > 0

\* how many vertices of a configuration are in a state
CountState(cfg, state) == Cardinality({i \in DOMAIN cfg : cfg[i] = state})

\* C16: in every run with the SIR rule set, from each configuration to the
\* next the number of removed vertices (state 2) does not decrease and the
\* number of susceptible vertices (state 0) does not increase.
C16_SIRMonotone ==
  [][ips_rules.kind = "SIR"
       => /\ CountState(states', 2) >= CountState(states, 2)
          /\ CountState(states', 0) <= CountState(states, 0)]_vars

\* an infection and a removal have happened
C16_Witness ==
  /\ ips_rules.kind = "SIR"
  /\ steps_taken = 2
  /\ CountState(states, 2) > CountState(initial_condition, 2)
  /\ CountState(states, 0) < CountState(initial_condition, 0)

\* C17: for the SIR rule set with b > 0 and d > 0 and a halt policy that does
\* not fire, every run takes at most 2 * #susceptible + #infected (of the
\* initial configuration) events, ends by the weighted index reporting all
\* weights zero and returns a final configuration without infected vertices.
C17_SIRDiesOut ==
  (/\ ips_rules.kind = "SIR"
   /\ ips_rules.birth_rate > 0
   /\ ips_rules.death_rate > 0
   /\ halting_condition \in NonFiringHalts)
    => /\ steps_taken <= 2 * CountState(initial_condition, 0)
                           + CountState(initial_condition, 1)
       /\ pc # "panic"
       /\ pc \in {"final", "done"}
            => /\ exit = "all_weights_zero"
               /\ CountState(states, 1) = 0

\* a run of SIProcess with birth_rate 0 and a positive death_rate from a
\* configuration with an infected vertex
SIWithoutBirth ==
  /\ ips_rules.kind = "SI"
  /\ ips_rules.birth_rate = 0
  /\ ips_rules.death_rate > 0
  /\ CountState(initial_condition, 1) >= 1

\* C18: for the SI rule set with b = 0 and d > 0 and k >= 1 infected vertices
\* initially, every event turns exactly one infected vertex susceptible, and a
\* run not cut short by the halt policy goes on until, after exactly k events,
\* every vertex is susceptible, and then leaves the loop through the
\* all-weights-zero exit.
C18_SIDiesOutInKEvents ==
  SIWithoutBirth
    => /\ pc # "panic"
       /\ Started
            => /\ CountState(states, 1)
                    = CountState(initial_condition, 1) - steps_taken
               /\ CountState(states, 0)
                    = CountState(initial_condition, 0) + steps_taken
       \* while the loop runs an infected vertex remains, and unless the halt
       \* policy fires the next event can be taken
       /\ pc = "loop"
            => /\ CountState(states, 1) > 0
               /\ should_continue(halting_condition, time_passed,
                                  steps_recorded, steps_taken)
                    => /\ \E v \in Vertices(graph) : distr_location[v + 1] > 0
                       /\ steps_taken < MaxEventsLong
       \* a loop not left through the halt policy is left after k events
       /\ (pc \in {"final", "done"} /\ exit # "halt")
            => /\ exit = "all_weights_zero"
               /\ steps_taken = CountState(initial_condition, 1)
               /\ CountState(states, 0) = N

\* three infected vertices have been healed one by one and the run has returned
C18_Witness ==
  /\ SIWithoutBirth
  /\ halting_condition \in NonFiringHalts
  /\ Returned
  /\ exit = "all_weights_zero"
  /\ steps_taken = 3

\* a grid of two axes, both cyclic, has been asked for the neighbors of a vertex
TorusAnswered ==
  /\ pc = "answered"
  /\ Len(graph.dimensions) = 2
  /\ graph.glue = <<TRUE, TRUE>>

\* C19 as stated: for GridND with two cyclic axes of dimensions (W, H), for
\* every W >= 2 and H >= 2, get_neighbors returns exactly four distinct
\* vertices for every vertex.
C19_FourNeighbors ==
  TorusAnswered => Cardinality(neighbors) = 4

\* C19: for GridND with two cyclic axes of dimensions (W, H), get_neighbors
\* returns exactly four distinct vertices, none of them the vertex itself, for
\* every vertex when W >= 3 and H >= 3; an axis of dimension 2 contributes one
\* neighbor only (its +1 and -1 steps meet), so the set has three vertices when
\* exactly one dimension is 2 and two when both are.
C19_FourNeighborsFromThree ==
  TorusAnswered
    => LET W == graph.dimensions[1]
           H == graph.dimensions[2]
       IN /\ particle \notin neighbors
          /\ (W >= 3 /\ H >= 3) => Cardinality(neighbors) = 4
          /\ Cardinality(neighbors)
               = (IF W = 2 THEN 1 ELSE 2) + (IF H = 2 THEN 1 ELSE 2)

\* a corner of the 3 x 4 torus, where both axes wrap, has four neighbors
C19_Witness ==
  /\ TorusAnswered
  /\ graph.dimensions = <<3, 4>>
  /\ particle = 0
  /\ neighbors = {1, 2, 3, 9}

\* GridND::from(vec![2, 3, 4]) has been asked for the neighbors of vertex 13
Grid234Answered ==
  /\ pc = "answered"
  /\ graph = GridND_from(<<2, 3, 4>>)
  /\ particle = 13

\* C20 as stated: for GridND with dimensions [2, 3, 4] and all axes cyclic,
\* get_neighbors(13) returns exactly six vertices, those obtained from vertex
\* 13 by +1 and -1 in each of the three axes with wrapping.
C20_SixNeighbors ==
  Grid234Answered
    => LET d == graph.dimensions
           st == step_sizes(d)
           coordinate(i) == (particle \div st[i]) % d[i]
           moved(i, delta) ==
             particle
               + (((coordinate(i) + delta) % d[i]) - coordinate(i)) * st[i]
           \* a step of -1 is a step of dimension - 1
           WrappedSteps ==
             {moved(i, 1) : i \in DOMAIN d}
               \cup {moved(i, d[i] - 1) : i \in DOMAIN d}
       IN /\ Cardinality(neighbors) = 6
          /\ neighbors = WrappedSteps

\* C20: for GridND with dimensions [2, 3, 4] and all axes cyclic,
\* get_neighbors(13) returns exactly the five vertices 7, 12, 15, 17 and 19:
\* those obtained from vertex 13 = (1, 0, 2) by +1 and -1 in each axis with
\* wrapping, where both steps along the first axis (dimension 2) give 12.
C20_FiveNeighbors ==
  Grid234Answered
    => LET d == graph.dimensions
           st == step_sizes(d)
           coordinate(i) == (particle \div st[i]) % d[i]
           moved(i, delta) ==
             particle
               + (((coordinate(i) + delta) % d[i]) - coordinate(i)) * st[i]
           \* a step of -1 is a step of dimension - 1
           WrappedSteps ==
             {moved(i, 1) : i \in DOMAIN d}
               \cup {moved(i, d[i] - 1) : i \in DOMAIN d}
       IN /\ neighbors = {7, 12, 15, 17, 19}
          /\ neighbors = WrappedSteps

\* the call has returned, with vertex 12 reached by both steps along axis one
C20_Witness ==
  /\ Grid234Answered
  /\ Cardinality(neighbors) = 5
  /\ 12 \in neighbors

\* C21: for GridND with any dimension vector (entries >= 2) and any per-axis
\* cyclic flags the neighbor relation is symmetric and stays inside the vertex
\* range: every returned neighbor u of a vertex v is in [0, N), and a vertex u
\* of [0, N) is in get_neighbors(v) if and only if v is in get_neighbors(u).
C21_GridSymmetricInRange ==
  (pc = "answered" /\ graph \in GridGraphs)
    => /\ neighbors \subseteq Vertices(graph)
       /\ \A u \in Vertices(graph) :
            u \in neighbors <=> particle \in get_neighbors(graph, u)

\* the far corner of the 3 x 4 grid glued along its first axis only: two
\* neighbors along the glued axis, one of them by wrapping, one along the other
C21_Witness ==
  /\ pc = "answered"
  /\ graph = GridND_from_glue(<<3, 4>>, <<TRUE, FALSE>>)
  /\ particle = 11
  /\ neighbors = {9, 10, 8}

\* a diluted lattice has been asked for the neighbors of a vertex
LatticeAnswered == pc = "answered" /\ "is_edge" \in DOMAIN graph

\* C22: for DilutedLattice of any size W x H and any edge mask the neighbor
\* relation is symmetric, u in get_neighbors(v) if and only if v in
\* get_neighbors(u), also across the wrap-around rows and columns.
C22_LatticeSymmetric ==
  LatticeAnswered
    => \A u \in 0 .. graph.nr_points - 1 :
         u \in neighbors <=> particle \in DilutedLattice_get_neighbors(graph, u)

\* a vertex of the top row of a 2 x 3 lattice has its neighbor in the bottom row,
\* through the wrap-around edge, and no neighbor below it
C22_Witness ==
  /\ LatticeAnswered
  /\ graph.dim_x = 2
  /\ graph.dim_y = 3
  /\ particle = 1
  /\ 5 \in neighbors
  /\ 3 \notin neighbors

\* C23: a DilutedLattice of size W x H in which every edge is present has, for
\* every vertex, the same neighbor set as the fully cyclic GridND with
\* dimensions [W, H] (which exists when W >= 2 and H >= 2).
C23_FullLatticeIsTorus ==
  (/\ LatticeAnswered
   /\ \A i \in DOMAIN graph.is_edge : graph.is_edge[i]
   /\ graph.dim_x >= 2
   /\ graph.dim_y >= 2)
    => neighbors
         = get_neighbors(GridND_from(<<graph.dim_x, graph.dim_y>>), particle)

\* the last vertex of the full 3 x 4 lattice: two of its four neighbors are
\* reached by wrapping
C23_Witness ==
  /\ LatticeAnswered
  /\ \A i \in DOMAIN graph.is_edge : graph.is_edge[i]
  /\ graph.dim_x = 3
  /\ graph.dim_y = 4
  /\ particle = 11
  /\ neighbors = {9, 10, 8, 2}

\* C24: no graph that can be constructed has a self-loop: for every GridND,
\* every ErdosRenyi graph and every DilutedLattice (any accepted sizes, any
\* edge mask) no vertex v is a member of get_neighbors(v).
C24_NoSelfLoop ==
  pc = "answered" => particle \notin neighbors


\* C25: the result of an event does not depend on the order in which the
\* neighbor set of the event vertex is iterated: whatever order the loop
\* visited the neighbors in, the reactivities and the total after the event
\* are those of the visit in one fixed order, so two runs with the same
\* inputs and the same draws stay equal
C25_OrderIndependent ==
  [][(pc = "loop" /\ steps_taken' = steps_taken + 1 /\ states' # states)
       => LET rt == EventRates_f64(ips_rules, graph, states, reactivities,
                                   total_reactivity, particle',
                                   states'[particle' + 1],
                                   SetToSeq(neighbors'))
          IN /\ reactivities' = rt.r
             /\ total_reactivity' = rt.t]_vars

\* C26: for integer rates, applying an event that changes vertex v from old
\* to g and then reverting it (v back to old, own-rate recomputation and
\* neighbor repair with old and g swapped) restores the reactivity vector and
\* the total to their values before the event
C26_RevertRestores ==
  pc = "loop" =>
    \A e \in EnabledEvents :
      LET applied == EventRates(ips_rules, graph, states, reactivities,
                                total_reactivity, e[1], e[2])
          cfg == [states EXCEPT ![e[1] + 1] = e[2]]
          reverted == EventRates(ips_rules, graph, cfg, applied.r, applied.t,
                                 e[1], states[e[1] + 1])
      IN /\ reverted.r = reactivities
         /\ reverted.t = total_reactivity

\* after an event, an SIR infection is enabled that changes the rates of the
\* vertex and of a neighbor
C26_Witness ==
  /\ pc = "loop"
  /\ steps_taken >= 1
  /\ ips_rules = SIRProcess(2, 1)
  /\ \E e \in EnabledEvents :
       LET applied == EventRates(ips_rules, graph, states, reactivities,
                                 total_reactivity, e[1], e[2])
       IN /\ applied.t # total_reactivity
          /\ \E n \in get_neighbors(graph, e[1]) :
               applied.r[n + 1] # reactivities[n + 1]

\* C27: when the initial configuration's length differs from the graph's
\* vertex count, the call fails at its boundary: it never gets past the
\* start except into the panic, no reactivity is computed, no weighted index
\* is built, no event is taken and no snapshot is produced
C27_LengthMismatchFailsFirst ==
  Len(initial_condition) # nr_points(graph) =>
    /\ pc \in {"start", "panic"}
    /\ reactivities = << >>
    /\ total_reactivity = 0
    /\ distr_location = << >>
    /\ states_record = << >>
    /\ steps_recorded = 0
    /\ steps_taken = 0
    /\ time_passed = 0
    /\ states = initial_condition

\* a configuration one entry too long has been turned away
C27_Witness ==
  /\ pc = "panic"
  /\ Len(initial_condition) = nr_points(graph) + 1
  /\ reactivities = << >>

\* C28: in every SI / contact-process rule set the spontaneous transition
\* infected -> susceptible has the death rate d, the transition susceptible
\* -> infected gains the birth rate b per infected neighbor, and every other
\* rate is zero
C28_SIRatesEverywhere ==
  pc = "answered" =>
    /\ reactivities[1] = IF states[1] = 1 /\ states[2] = 0
                         THEN ips_rules.death_rate ELSE 0
    /\ reactivities[2] = IF states[1] = 0 /\ states[2] = 1 /\ states[3] = 1
                         THEN ips_rules.birth_rate ELSE 0

\* C29: every completed event changes the state of exactly one vertex, the
\* sampled event vertex v, to a state g different from its old state with
\* mutation_rate(old, g, counts) > 0; the state of every other vertex is
\* unchanged by the event
C29_OneVertexChanges ==
  [][(steps_taken' = steps_taken + 1 /\ exit' # "zero_categorical")
       => \E v \in Vertices(graph) :
            /\ distr_location[v + 1] > 0
            /\ states'[v + 1] # states[v + 1]
            /\ states' = [states EXCEPT ![v + 1] = states'[v + 1]]
            /\ get_mutation_rate(ips_rules, states[v + 1], states'[v + 1],
                                 NeighCounts(states, get_neighbors(graph, v)))
                 > 0]_vars

\* one event of the two-species rule set has been taken: one vertex differs
\* from the initial configuration
C29_Witness ==
  /\ pc = "loop"
  /\ steps_taken = 1
  /\ ips_rules.kind = "TwoSI"
  /\ Cardinality({v \in Vertices(graph) :
                    states[v + 1] # initial_condition[v + 1]}) = 1

\* C30: with exact arithmetic, for every canonical rule set on a symmetric
\* loop-free graph, every vertex the weighted index can return has
\* reactivity > 0 and its target-state categorical has a positive entry, so
\* the loop exit on an all-zero categorical is never taken
C30_NoZeroCategorical ==
  /\ exit # "zero_categorical"
  /\ pc = "loop" =>
       \A v \in Vertices(graph) :
         distr_location[v + 1] > 0 =>
           /\ reactivities[v + 1] > 0
           /\ \E goal \in all_states(ips_rules) :
                get_mutation_rate(ips_rules, states[v + 1], goal,
                                  NeighCounts(states, get_neighbors(graph, v)))
                  > 0

\* after an event of the voter rule set, some vertex can be sampled and some
\* other vertex cannot
C30_Witness ==
  /\ pc = "loop"
  /\ steps_taken >= 1
  /\ ips_rules.kind = "Voter"
  /\ \E v \in Vertices(graph) : distr_location[v + 1] > 0
  /\ \E v \in Vertices(graph) : distr_location[v + 1] = 0

\* C31: the patch list handed to the weighted index in every event holds the
\* event vertex and each of its neighbors exactly once, in strictly
\* ascending index order, and the index never rejects a patch: the loop does
\* not end in the panic of "Changing weights"
C31_PatchListAscending ==
  /\ pc = "panic" => steps_taken = 0
  /\ pc = "loop" =>
       \A v \in 0 .. Graph_nr_points(graph) - 1 :
         distr_location[v + 1] > 0 =>
           LET neighs == Graph_get_neighbors(graph, v)
               changing_weights == ChangingWeights(reactivities, v, neighs)
           IN /\ Len(changing_weights) = Cardinality(neighs \cup {v})
              /\ {changing_weights[k][1] : k \in DOMAIN changing_weights}
                   = neighs \cup {v}
              /\ \A k \in 1 .. Len(changing_weights) - 1 :
                   changing_weights[k][1] < changing_weights[k + 1][1]

\* C32: the neighbor-state counts over neighbors(v) that the solver takes
\* again after writing cfg[v] = g equal the counts it took before the write
C32_CountsUnchangedByWrite ==
  pc = "loop" =>
    \A e \in EnabledEvents :
      LET neighs == Graph_get_neighbors(graph, e[1])
          cfg == [states EXCEPT ![e[1] + 1] = e[2]]
      IN NeighCounts(cfg, neighs) = NeighCounts(states, neighs)

\* C33: every entry of the reactivity vector is >= 0 in every reachable
\* state, and with integer rates on a symmetric loop-free graph no event
\* brings a neighbor's reactivity below zero, so the clamp of the neighbor
\* repair is never taken
C33_NonNegativeNoClamp ==
  /\ \A i \in DOMAIN reactivities : reactivities[i] >= 0
  /\ pc = "loop" =>
       \A e \in EnabledEvents :
         \A n \in Graph_get_neighbors(graph, e[1]) :
           reactivities[n + 1]
             - get_neighbor_reactivity(ips_rules, states[n + 1],
                                       states[e[1] + 1])
             + get_neighbor_reactivity(ips_rules, states[n + 1], e[2]) >= 0

\* after an event, the loop can take an event that takes a neighbor's whole
\* reactivity away
C33_Witness ==
  /\ pc = "loop"
  /\ steps_taken >= 1
  /\ \E e \in EnabledEvents :
       \E n \in Graph_get_neighbors(graph, e[1]) :
         /\ reactivities[n + 1] > 0
         /\ EventRates(ips_rules, graph, states, reactivities,
                       total_reactivity, e[1], e[2]).r[n + 1] = 0

\* C34 as stated: for every rule set, state and neighbor-count map, in the
\* f64 arithmetic of the code, get_reactivity equals the sum over the goal
\* states of get_mutation_rate, and one more neighbor in state s raises
\* get_reactivity by exactly get_neighbor_reactivity(current, s)
C34_RowSumIdentities ==
  pc = "answered" =>
    /\ distr_location[1] = distr_location[2]
    /\ distr_location[3] = f64_add(distr_location[1], distr_location[4])

\* C34, amended: with integer rates and exact arithmetic, get_reactivity
\* equals the sum over the goal states of get_mutation_rate, and one more
\* neighbor in state s raises it by exactly get_neighbor_reactivity(current, s)
C34_RowSumIdentitiesExact ==
  pc = "answered" =>
    /\ reactivities[1] = reactivities[2]
    /\ reactivities[3] = reactivities[1] + reactivities[4]

\* a voter with two neighbors of each other party gets one more neighbor,
\* and its reactivity grows
C34_Witness ==
  /\ pc = "answered"
  /\ ips_rules = VoterProcess(3, 3)
  /\ states = <<0, 1>>
  /\ initial_condition = <<0, 2, 2>>
  /\ reactivities = <<12, 12, 15, 3>>

\* C35: the Two-SI rule set is symmetric in its two species: exchanging the
\* labels 1 and 2 in current, goal and sender leaves every vacuum rate and
\* every neighbor rate unchanged, and in every configuration the solver
\* reaches, the label-exchanged configuration has the same reactivities and
\* offers the label-exchanged event at every vertex with the same rate, so
\* the runs from a label-exchanged initial configuration are the
\* label-exchanged runs
C35_TwoSISymmetric ==
  /\ \A current, goal, sender \in all_states(ips_rules) :
       /\ get_vacuum_mutation_rate(ips_rules, SwapSpecies(current),
                                   SwapSpecies(goal))
            = get_vacuum_mutation_rate(ips_rules, current, goal)
       /\ get_neighbor_mutation_rate(ips_rules, SwapSpecies(current),
                                     SwapSpecies(goal), SwapSpecies(sender))
            = get_neighbor_mutation_rate(ips_rules, current, goal, sender)
  /\ pc = "loop" =>
       LET swapped == SwapSpeciesIn(states)
       IN /\ InitialReactivities(ips_rules, graph, swapped) = reactivities
          /\ \A v \in 0 .. Graph_nr_points(graph) - 1 :
             \A goal \in all_states(ips_rules) :
               get_mutation_rate(
                 ips_rules, swapped[v + 1], SwapSpecies(goal),
                 NeighCounts(swapped, Graph_get_neighbors(graph, v)))
               = get_mutation_rate(
                   ips_rules, states[v + 1], goal,
                   NeighCounts(states, Graph_get_neighbors(graph, v)))

\* after an event both species are present next to each other, and one can
\* convert the other
C35_Witness ==
  /\ pc = "loop"
  /\ steps_taken >= 1
  /\ ips_rules = TwoSIProcess(3, 2, 1)
  /\ \E e \in EnabledEvents : states[e[1] + 1] = 2 /\ e[2] = 1
  /\ SwapSpeciesIn(states) # states

C37_SnapshotKAfterKEvents ==
  (record_condition = EveryNthStep(1) /\ pc = "loop") =>
    /\ NrSnapshots = steps_taken + 1
    /\ Snapshot(0) = initial_condition
    /\ Snapshot(steps_taken) = states
    /\ \A k \in 0 .. NrSnapshots - 2 : Snapshot(k) # Snapshot(k + 1)

\* C37 as amended: under EveryNthStep(1) every iteration that returns to the
\* loop head appends the configuration the event started from, so snapshot k
\* (k >= 1) is the configuration after exactly k - 1 events, snapshots 0 and
\* 1 are both the initial configuration, and from snapshot 1 on consecutive
\* snapshots differ
C37_SnapshotsArePreEvent ==
  [][(record_condition = EveryNthStep(1) /\ pc = "loop" /\ pc' = "loop")
       => /\ NrSnapshots = steps_taken + 1
          /\ steps_taken' = steps_taken + 1
          /\ states_record' = states_record \o states
          /\ states' # states
          /\ steps_taken = 0
               => states_record' = initial_condition \o initial_condition]_vars

\* two events recorded under EveryNthStep(1): the record is the initial
\* configuration twice, then the configuration after the first event, and
\* the configuration after the second event is not in it
C37_Witness ==
  /\ record_condition = EveryNthStep(1)
  /\ pc = "loop"
  /\ steps_taken = 2
  /\ NrSnapshots = 3
  /\ Snapshot(0) = initial_condition
  /\ Snapshot(1) = initial_condition
  /\ Snapshot(2) # initial_condition
  /\ Snapshot(2) # states

====
